---- MODULE Spec2Model ----
(***************************************************************************)
(* Admin registrations of Project-Refill (admin.py): nine ModelAdmin       *)
(* classes registered with the Django admin site, and the requests the     *)
(* admin site serves through them (changelist, change form, add, change,   *)
(* delete, bulk delete).  The classes are modelled attribute by attribute, *)
(* with Python attribute lookup through the base classes; the views are    *)
(* the ones every class inherits from admin.ModelAdmin.                    *)
(***************************************************************************)
EXTENDS Integers, Sequences, FiniteSets, TLC

VARIABLES db, last, admin

vars == <<db, last, admin>>

(* ------------------------------ bounds --------------------------------- *)

\* field values are drawn from 0..MaxVal
MaxVal == 1
\* rows per table (primary keys 1..MaxRows)
MaxRows == 1
\* DistributionItem rows (primary keys 1..MaxItems)
MaxItems == 2
\* entries carried by one POST body: a field value is one entry, an inline
\* item form (its pk or DELETE mark and its value) is two
MaxKeys == 2

Values == 0..MaxVal
Ids == 1..MaxRows
ItemIds == 1..MaxItems
\* a Distribution row that no request of the run addresses
OtherDistribution == MaxRows + 1

Range(s) == {s[i] : i \in 1..Len(s)}

(* ------------------- classes of the host framework --------------------- *)

\* django.contrib.admin.ModelAdmin: the class attributes the registrations
\* below rely on or override (fieldsets None is the empty sequence)
ModelAdmin ==
  [list_display    |-> <<"__str__">>,
   list_filter     |-> <<>>,
   search_fields   |-> <<>>,
   readonly_fields |-> <<>>,
   inlines         |-> <<>>,
   fieldsets       |-> <<>>]

\* django.contrib.auth.admin.UserAdmin.fieldsets
UserAdmin_fieldsets ==
  << [name |-> "None", fields |-> <<"username", "password">>],
     [name |-> "Personal info", fields |-> <<"first_name", "last_name", "email">>],
     [name |-> "Permissions",
      fields |-> <<"is_active", "is_staff", "is_superuser", "groups", "user_permissions">>],
     [name |-> "Important dates", fields |-> <<"last_login", "date_joined">>] >>

\* django.contrib.auth.admin.UserAdmin
UserAdmin ==
  [fieldsets     |-> UserAdmin_fieldsets,
   add_fieldsets |-> << [name |-> "None",
                         fields |-> <<"username", "password1", "password2">>] >>,
   list_display  |-> <<"username", "email", "first_name", "last_name", "is_staff">>,
   list_filter   |-> <<"is_staff", "is_superuser", "is_active", "groups">>,
   search_fields |-> <<"username", "first_name", "last_name", "email">>]

(* --------------------- the registrations (admin.py) -------------------- *)

\* faulty variant: the extra section is not appended to the fieldsets
CustomUserAdmin_BaseFieldsets ==
  [fieldsets    |-> UserAdmin.fieldsets,
   list_display |-> <<"username", "employee_id", "role", "depot", "is_staff">>,
   list_filter  |-> <<"role", "depot">>]

CustomUserAdmin ==
  [fieldsets    |-> UserAdmin.fieldsets \o
                    << [name |-> "LPG System Info",
                        fields |-> <<"employee_id", "role", "depot">>] >>,
   list_display |-> <<"username", "employee_id", "role", "depot", "is_staff">>,
   list_filter  |-> <<"role", "depot">>]

\* faulty variant: a search field has drifted away
DepotAdmin_Drifted ==
  [list_display  |-> <<"code", "name">>,
   search_fields |-> <<"name">>]

DepotAdmin ==
  [list_display  |-> <<"code", "name">>,
   search_fields |-> <<"name", "code">>]

EquipmentAdmin ==
  [list_display |-> <<"sku", "name", "equipment_type", "is_active">>,
   list_filter  |-> <<"equipment_type", "is_active">>]

CustomerAdmin ==
  [list_display  |-> <<"name", "email", "payment_type", "is_meter_installed">>,
   search_fields |-> <<"name", "email">>]

\* faulty variant: the quantity is declared read-only
InventoryAdmin_QuantityReadonly ==
  [list_display    |-> <<"customer", "equipment", "quantity">>,
   list_filter     |-> <<"equipment">>,
   search_fields   |-> <<"customer__name">>,
   readonly_fields |-> <<"quantity">>]

InventoryAdmin ==
  [list_display  |-> <<"customer", "equipment", "quantity">>,
   list_filter   |-> <<"equipment">>,
   search_fields |-> <<"customer__name">>]

TransactionAdmin ==
  [list_display    |-> <<"transaction_number", "customer", "total_amount", "created_at">>,
   readonly_fields |-> <<"transaction_number", "created_at">>]

\* faulty variant: generated_at is missing from the read-only fields
InvoiceAdmin_GeneratedAtEditable ==
  [list_display    |-> <<"invoice_number", "status", "generated_at", "emailed_at">>,
   list_filter     |-> <<"status">>,
   readonly_fields |-> <<"invoice_number", "pdf_path">>]

InvoiceAdmin ==
  [list_display    |-> <<"invoice_number", "status", "generated_at", "emailed_at">>,
   list_filter     |-> <<"status">>,
   readonly_fields |-> <<"invoice_number", "pdf_path", "generated_at">>]

\* faulty variant: extra left at the framework's default of three
DistributionItemInline_DefaultExtra ==
  [model      |-> "DistributionItem",
   extra      |-> 3,
   can_delete |-> TRUE]

\* TabularInline defaults: can_delete = True
DistributionItemInline ==
  [model      |-> "DistributionItem",
   extra      |-> 1,
   can_delete |-> TRUE]

DistributionAdmin ==
  [list_display    |-> <<"distribution_number", "depot", "user", "confirmed_at">>,
   inlines         |-> <<DistributionItemInline>>,
   readonly_fields |-> <<"distribution_number", "created_at">>]

\* AuditLog._meta.get_fields(): the fields of the AuditLog model
AuditLog_get_fields ==
  << [name |-> "id"], [name |-> "created_at"], [name |-> "user"],
     [name |-> "action"], [name |-> "entity_type"], [name |-> "entity_id"],
     [name |-> "payload"] >>

\* faulty variant: only the listed columns are read-only
AuditLogAdmin_readonly_fields_Listed ==
  <<"created_at", "user", "action", "entity_type", "entity_id">>

AuditLogAdmin_readonly_fields ==
  [i \in 1..Len(AuditLog_get_fields) |-> AuditLog_get_fields[i].name]

AuditLogAdmin ==
  [list_display    |-> <<"created_at", "user", "action", "entity_type", "entity_id">>,
   list_filter     |-> <<"action", "entity_type">>,
   readonly_fields |-> AuditLogAdmin_readonly_fields]

\* faulty variants: the check lets superusers through
AuditLogAdmin_has_change_permission_Superuser(request, obj) ==
  request.user.is_superuser

AuditLogAdmin_has_delete_permission_Superuser(request, obj) ==
  request.user.is_superuser

AuditLogAdmin_has_add_permission(request) == FALSE

AuditLogAdmin_has_change_permission(request, obj) == FALSE

AuditLogAdmin_has_delete_permission(request, obj) == FALSE

\* admin.site._registry after the @admin.register decorators have run
Registry ==
  [User                  |-> CustomUserAdmin,
   Depot                 |-> DepotAdmin,
   Equipment             |-> EquipmentAdmin,
   Customer              |-> CustomerAdmin,
   CustomerSiteInventory |-> InventoryAdmin,
   Transaction           |-> TransactionAdmin,
   Invoice               |-> InvoiceAdmin,
   Distribution          |-> DistributionAdmin,
   AuditLog              |-> AuditLogAdmin]

Registered == DOMAIN Registry

\* the base classes of each registered class, nearest first
Bases(model) ==
  IF model = "User" THEN <<UserAdmin, ModelAdmin>> ELSE <<ModelAdmin>>

\* Python attribute lookup: the class itself, then its bases in order
Attr(model, a) ==
  IF a \in DOMAIN Registry[model] THEN Registry[model][a]
  ELSE LET bs == Bases(model)
           i  == CHOOSE j \in 1..Len(bs) :
                   /\ a \in DOMAIN bs[j]
                   /\ \A k \in 1..(j - 1) : a \notin DOMAIN bs[k]
       IN bs[i][a]

(* ------------------------- callers and requests ------------------------ *)

AllModels == Registered \cup {DistributionItemInline.model}

\* the staff accounts requests are made from: a superuser, a member granted
\* every add/change/delete permission (items: add and change only) but no
\* view permission, and a member granted only the view permissions
Users ==
  { [username |-> "root", is_active |-> TRUE, is_staff |-> TRUE,
     is_superuser |-> TRUE, perms |-> {}],
    [username |-> "clerk", is_active |-> TRUE, is_staff |-> TRUE,
     is_superuser |-> FALSE,
     perms |-> ({"add", "change", "delete"} \X AllModels)
               \ {<<"delete", "DistributionItem">>}],
    [username |-> "viewer", is_active |-> TRUE, is_staff |-> TRUE,
     is_superuser |-> FALSE, perms |-> {"view"} \X AllModels] }

Requests == [user : Users]

\* ModelBackend.has_perm
has_perm(user, perm) ==
  user.is_active /\ (user.is_superuser \/ perm \in user.perms)

(* ------------- permission checks inherited from ModelAdmin ------------- *)

ModelAdmin_has_add_permission(model, request) ==
  has_perm(request.user, <<"add", model>>)

ModelAdmin_has_change_permission(model, request, obj) ==
  has_perm(request.user, <<"change", model>>)

ModelAdmin_has_delete_permission(model, request, obj) ==
  has_perm(request.user, <<"delete", model>>)

ModelAdmin_has_view_permission(model, request, obj) ==
  \/ has_perm(request.user, <<"view", model>>)
  \/ has_perm(request.user, <<"change", model>>)

\* method resolution: AuditLogAdmin defines the three checks itself, every
\* other registered class inherits ModelAdmin's
has_add_permission(model, request) ==
  IF model = "AuditLog" THEN AuditLogAdmin_has_add_permission(request)
  ELSE ModelAdmin_has_add_permission(model, request)

has_change_permission(model, request, obj) ==
  IF model = "AuditLog" THEN AuditLogAdmin_has_change_permission(request, obj)
  ELSE ModelAdmin_has_change_permission(model, request, obj)

\* faulty variant: InvoiceAdmin denies deletion too
has_delete_permission_InvoiceDenied(model, request, obj) ==
  IF model \in {"AuditLog", "Invoice"}
  THEN AuditLogAdmin_has_delete_permission(request, obj)
  ELSE ModelAdmin_has_delete_permission(model, request, obj)

has_delete_permission(model, request, obj) ==
  IF model = "AuditLog" THEN AuditLogAdmin_has_delete_permission(request, obj)
  ELSE ModelAdmin_has_delete_permission(model, request, obj)

\* faulty variant: viewing is tied to the class's change check
has_view_permission_ByChange(model, request, obj) ==
  has_change_permission(model, request, obj)

\* no registered class defines has_view_permission
has_view_permission(model, request, obj) ==
  ModelAdmin_has_view_permission(model, request, obj)

has_view_or_change_permission(model, request, obj) ==
  \/ has_view_permission(model, request, obj)
  \/ has_change_permission(model, request, obj)

(* --------------------------- fields and forms -------------------------- *)

flatten_fieldsets(fieldsets) ==
  UNION {Range(fieldsets[i].fields) : i \in 1..Len(fieldsets)}

\* the fields of each model: AuditLog's are get_fields(); of the other
\* models, the fields the registrations name
ModelFields(model) ==
  IF model = "AuditLog"
  THEN {AuditLog_get_fields[i].name : i \in 1..Len(AuditLog_get_fields)}
  ELSE Range(Attr(model, "list_display"))
         \cup Range(Attr(model, "readonly_fields"))
         \cup flatten_fieldsets(Attr(model, "fieldsets"))

\* the automatic primary key is not an editable field
NonEditable == {"id"}

get_readonly_fields(model) == Range(Attr(model, "readonly_fields"))

\* UserAdmin.get_fieldsets answers add_fieldsets when there is no object yet,
\* otherwise the fieldsets attribute (empty when the class declares none)
get_fieldsets(model, add) ==
  IF add /\ model = "User" THEN Attr(model, "add_fieldsets")
  ELSE Attr(model, "fieldsets")

\* the fields of the fieldsets; all fields of the model when there are none
get_fields(model, add) ==
  IF get_fieldsets(model, add) = <<>> THEN ModelFields(model)
  ELSE flatten_fieldsets(get_fieldsets(model, add))

\* ModelAdmin.get_form: the model's editable fields among those of the
\* fieldsets, the read-only ones excluded
get_form(model, add) ==
  (get_fields(model, add) \cap ModelFields(model))
    \ (get_readonly_fields(model) \cup NonEditable)

\* the fields a change page renders as inputs: none without change permission
EditableInputs(model, request) ==
  IF has_change_permission(model, request, "obj") THEN get_form(model, FALSE)
  ELSE {}

\* forms.models.construct_instance: only fields of the form are taken from
\* the POST body
construct_instance(model, instance, data, add) ==
  [f \in ModelFields(model) |->
     IF f \in get_form(model, add) /\ f \in DOMAIN data THEN data[f]
     ELSE instance[f]]

(* ------------------------------ inlines -------------------------------- *)

HasInline(model) == Attr(model, "inlines") # <<>>

InlineOf(model) == Attr(model, "inlines")[1]

\* InlineModelAdmin permission checks: the caller's permission on the
\* inline's model
Inline_has_add_permission(inline, request) ==
  has_perm(request.user, <<"add", inline.model>>)

Inline_has_change_permission(inline, request) ==
  has_perm(request.user, <<"change", inline.model>>)

Inline_has_delete_permission(inline, request) ==
  has_perm(request.user, <<"delete", inline.model>>)

\* ModelAdmin.get_inline_formsets: the blank forms a change page offers;
\* none unless the caller may edit the parent and add items
BlankForms(model, request, add) ==
  IF ~HasInline(model) THEN 0
  ELSE LET can_edit_parent ==
             IF add THEN has_add_permission(model, request)
             ELSE has_change_permission(model, request, "obj")
       IN IF can_edit_parent /\ Inline_has_add_permission(InlineOf(model), request)
          THEN InlineOf(model).extra
          ELSE 0

\* BaseInlineFormSet.get_queryset: the items of the parent instance
InlineQueryset(items, parent) ==
  {i \in DOMAIN items : items[i].distribution = parent}

NewItemId(items) == CHOOSE i \in ItemIds \ DOMAIN items :
                      \A j \in ItemIds \ DOMAIN items : i <= j

\* BaseModelFormSet.save: skip a form that names an item outside the
\* queryset, delete the forms marked for deletion, save the changed ones,
\* create one item per filled-in extra form (its parent is the formset's
\* instance)
RECURSIVE save_formset(_, _, _, _)
save_formset(items, parent, forms, request) ==
  IF forms = <<>> THEN items
  ELSE LET form   == Head(forms)
           saved  ==
             IF form.pk = 0
             THEN IF /\ Inline_has_add_permission(DistributionItemInline, request)
                     /\ ~form.DELETE
                     /\ ItemIds \ DOMAIN items # {}
                  THEN items @@ (NewItemId(items) :>
                         [distribution |-> parent, quantity |-> form.quantity])
                  ELSE items
             ELSE IF form.pk \notin InlineQueryset(items, parent) THEN items
             ELSE IF form.DELETE
             THEN IF /\ DistributionItemInline.can_delete
                     /\ Inline_has_delete_permission(DistributionItemInline, request)
                  THEN [i \in DOMAIN items \ {form.pk} |-> items[i]]
                  ELSE items
             ELSE IF Inline_has_change_permission(DistributionItemInline, request)
             THEN [items EXCEPT ![form.pk] =
                     [distribution |-> parent, quantity |-> form.quantity]]
             ELSE items
       IN save_formset(saved, parent, Tail(forms), request)

\* ModelAdmin.save_related: the formsets of the declared inlines
save_related(model, items, parent, forms, request) ==
  IF HasInline(model) THEN save_formset(items, parent, forms, request)
  ELSE items

\* deletion collects the items of a deleted Distribution with it
Cascade(model, items, ids) ==
  IF HasInline(model)
  THEN [i \in {j \in DOMAIN items : items[j].distribution \notin ids} |-> items[i]]
  ELSE items

\* get_deleted_objects: the registered models among the collected objects
\* that the caller may not delete (the inline's model is not registered)
perms_needed(model, request) ==
  IF has_delete_permission(model, request, "obj") THEN {} ELSE {model}

\* ModelAdmin.get_actions: delete_selected needs the delete permission
get_actions(model, request) ==
  IF has_delete_permission(model, request, "None") THEN {"delete_selected"}
  ELSE {}

(* ------------------------------- inputs -------------------------------- *)

\* the fields a submitted POST body may carry a value for: the read-only
\* fields of each class and up to two of the editable ones (the items of a
\* Distribution stand for its editable part)
InputFields ==
  [User                  |-> {"role", "depot"},
   Depot                 |-> {"code", "name"},
   Equipment             |-> {"sku", "is_active"},
   Customer              |-> {"name", "email"},
   CustomerSiteInventory |-> {"customer", "quantity"},
   Transaction           |-> {"transaction_number", "created_at", "total_amount"},
   Invoice               |-> {"invoice_number", "pdf_path", "generated_at", "status"},
   Distribution          |-> {"distribution_number", "created_at"},
   AuditLog              |-> {"action", "payload", "user"}]

\* field values of a POST body; a field of the form the body does not name
\* is submitted with the value the form was rendered with
DataSets(model) ==
  UNION {[K -> Values] : K \in {S \in SUBSET InputFields[model] :
                                  Cardinality(S) <= MaxKeys}}

EmptyData == [k \in {} |-> 0]

\* one form of the inline formset: pk 0 is an extra (blank) form filled in
ItemForms ==
  [pk : {0} \cup ItemIds, DELETE : {FALSE}, quantity : Values]
    \cup [pk : ItemIds, DELETE : {TRUE}, quantity : {0}]

RECURSIVE SeqsUpTo(_, _)
SeqsUpTo(S, n) ==
  IF n = 0 THEN {<<>>}
  ELSE LET shorter == SeqsUpTo(S, n - 1)
       IN shorter \cup {Append(q, x) : q \in shorter, x \in S}

DistinctPks(forms) ==
  \A i, j \in 1..Len(forms) :
    (i # j /\ forms[i].pk # 0) => forms[i].pk # forms[j].pk

FormSets(model) ==
  IF HasInline(model)
  THEN {q \in SeqsUpTo(ItemForms, MaxKeys \div 2) : DistinctPks(q)}
  ELSE {<<>>}

\* the POST bodies: field values and inline forms, MaxKeys entries at most
Bodies(model) ==
  {b \in [data : DataSets(model), forms : FormSets(model)] :
     Cardinality(DOMAIN b.data) + 2 * Len(b.forms) <= MaxKeys}

(* -------------------------------- state -------------------------------- *)

Row(model, id) == [f \in ModelFields(model) |-> IF f = "id" THEN id ELSE 0]

NoPage ==
  [list_display |-> <<>>, search_fields |-> <<>>, actions |-> {},
   editable |-> {}, blank_forms |-> 0, rows |-> {}]

\* no request is being served
Idle ==
  [view |-> "none", method |-> "none", user |-> "none", object_id |-> 0,
   selected |-> {}, data |-> EmptyData, forms |-> <<>>, status |-> "none",
   page |-> NoPage]

\* db: the tables; last: the request being served with its response and the
\* tables as they were before it, Idle between two requests; admin: the
\* registered model whose admin pages the requests of the run address
Init ==
  /\ db = [m \in AllModels |->
             IF m = "DistributionItem"
             THEN (1 :> [distribution |-> 1, quantity |-> 0])
                    @@ (2 :> [distribution |-> OtherDistribution, quantity |-> 0])
             ELSE [id \in {1} |-> Row(m, id)]]
  /\ last = Idle
  /\ admin \in Registered

UserOf(name) == CHOOSE u \in Users : u.username = name

Response(view, method, request, object_id, selected, body, status, page) ==
  [view |-> view, method |-> method, user |-> request.user.username,
   object_id |-> object_id, selected |-> selected, data |-> body.data,
   forms |-> body.forms, status |-> status, before |-> db,
   page |-> IF status = "ok" THEN page ELSE NoPage]

NoBody == [data |-> EmptyData, forms |-> <<>>]

(* ----------------------- the views of ModelAdmin ----------------------- *)

Page(model, request, editable, blank_forms) ==
  [list_display  |-> Attr(model, "list_display"),
   search_fields |-> Attr(model, "search_fields"),
   actions       |-> get_actions(model, request),
   editable      |-> editable,
   blank_forms   |-> blank_forms,
   rows          |-> DOMAIN db[model]]

\* UserAdmin.add_view: adding a user takes the change permission as well
UserAdmin_add_allowed(model, request) ==
  model = "User" => has_change_permission(model, request, "None")

\* GET of the list page
changelist_view(request, model) ==
  /\ last = Idle
  /\ LET status ==
           IF ~has_view_or_change_permission(model, request, "None")
           THEN "denied"
           ELSE "ok"
     IN last' = Response("changelist_view", "GET", request, 0, {}, NoBody,
                         status, Page(model, request, {}, 0))
  /\ UNCHANGED <<db, admin>>

\* GET of the add page (object_id 0) or of the change page of a row
changeform_view(request, model, object_id) ==
  /\ last = Idle
  /\ LET add == object_id = 0
         status ==
           IF add /\ ~has_add_permission(model, request) THEN "denied"
           ELSE IF add /\ ~UserAdmin_add_allowed(model, request) THEN "denied"
           ELSE IF ~add /\ ~has_view_or_change_permission(model, request, "obj")
           THEN "denied"
           ELSE IF ~add /\ object_id \notin DOMAIN db[model] THEN "notfound"
           ELSE "ok"
         editable == IF add THEN get_form(model, TRUE)
                     ELSE EditableInputs(model, request)
     IN last' = Response(IF add THEN "add_view" ELSE "change_view", "GET",
                         request, object_id, {}, NoBody, status,
                         Page(model, request, editable,
                              BlankForms(model, request, add)))
  /\ UNCHANGED <<db, admin>>

NewId(model) == CHOOSE i \in Ids \ DOMAIN db[model] :
                  \A j \in Ids \ DOMAIN db[model] : i <= j

ExtraForms(forms) == {k \in 1..Len(forms) : forms[k].pk = 0}

\* POST of the add page (object_id 0) or of the change page of a row: the
\* permission check, save_model and save_related
changeform_post(request, model, object_id, body) ==
  LET add    == object_id = 0
      items  == db["DistributionItem"]
      parent == IF ~add THEN object_id
                ELSE IF Ids \ DOMAIN db[model] = {} THEN 0
                ELSE NewId(model)
      status ==
        IF add /\ ~has_add_permission(model, request) THEN "denied"
        ELSE IF add /\ ~UserAdmin_add_allowed(model, request) THEN "denied"
        ELSE IF ~add /\ ~has_change_permission(model, request, "obj")
        THEN "denied"
        ELSE IF ~add /\ object_id \notin DOMAIN db[model] THEN "notfound"
        ELSE "ok"
      instance == IF add THEN Row(model, parent) ELSE db[model][object_id]
      saved  == construct_instance(model, instance, body.data, add)
  IN /\ last = Idle
     /\ status = "ok" =>
          /\ parent # 0
          /\ Cardinality(ExtraForms(body.forms))
               <= Cardinality(ItemIds \ DOMAIN items)
     /\ last' = Response(IF add THEN "add_view" ELSE "change_view", "POST",
                         request, object_id, {}, body, status, NoPage)
     /\ db' = IF status # "ok" THEN db
              ELSE [db EXCEPT
                      ![model] = IF add THEN @ @@ (parent :> saved)
                                 ELSE [@ EXCEPT ![object_id] = saved],
                      !["DistributionItem"] =
                         save_related(model, @, parent, body.forms, request)]
     /\ UNCHANGED admin

add_view(request, model, body) ==
  changeform_post(request, model, 0, body)

change_view(request, model, object_id, body) ==
  /\ object_id # 0
  /\ changeform_post(request, model, object_id, body)

Remove(table, ids) == [i \in DOMAIN table \ ids |-> table[i]]

\* POST of the delete confirmation page of a row
delete_view(request, model, object_id) ==
  LET status ==
        IF ~has_delete_permission(model, request, "obj") THEN "denied"
        ELSE IF object_id \notin DOMAIN db[model] THEN "notfound"
        ELSE IF perms_needed(model, request) # {} THEN "denied"
        ELSE "ok"
  IN /\ last = Idle
     /\ last' = Response("delete_view", "POST", request, object_id, {}, NoBody,
                         status, NoPage)
     /\ db' = IF status # "ok" THEN db
              ELSE [db EXCEPT
                      ![model] = Remove(@, {object_id}),
                      !["DistributionItem"] = Cascade(model, @, {object_id})]
     /\ UNCHANGED admin

\* POST of the list page with action delete_selected, confirmed
delete_selected(request, model, selected) ==
  LET status ==
        IF ~has_view_or_change_permission(model, request, "None") THEN "denied"
        ELSE IF "delete_selected" \notin get_actions(model, request)
        THEN "noaction"
        ELSE IF perms_needed(model, request) # {} THEN "denied"
        ELSE "ok"
  IN /\ last = Idle
     /\ last' = Response("delete_selected", "POST", request, 0, selected, NoBody,
                         status, NoPage)
     /\ db' = IF status # "ok" THEN db
              ELSE [db EXCEPT
                      ![model] = Remove(@, selected),
                      !["DistributionItem"] = Cascade(model, @, selected)]
     /\ UNCHANGED admin

\* the response has been sent: the site awaits the next request
Respond ==
  /\ last # Idle
  /\ last' = Idle
  /\ UNCHANGED <<db, admin>>

Next ==
  \/ Respond
  \/ \E request \in Requests :
    \/ changelist_view(request, admin)
    \/ \E object_id \in {0} \cup Ids : changeform_view(request, admin, object_id)
    \/ \E body \in Bodies(admin) : add_view(request, admin, body)
    \/ \E object_id \in Ids, body \in Bodies(admin) :
         change_view(request, admin, object_id, body)
    \/ \E object_id \in Ids : delete_view(request, admin, object_id)
    \/ \E selected \in SUBSET Ids \ {{}} : delete_selected(request, admin, selected)

Spec == Init /\ [][Next]_vars

(* ------------------------------- claims -------------------------------- *)

LastRequest == [user |-> UserOf(last.user)]

Served(view, method) == last.view = view /\ last.method = method

InitialAuditLog == [id \in {1} |-> Row("AuditLog", id)]

\* C1: AuditLogAdmin's has_add_permission, has_change_permission and
\* has_delete_permission answer False for every request (a superuser's
\* included) and every obj (None or any record), so every add, change, delete
\* and bulk-delete request on the audit log is rejected whoever makes it.
C1_AuditWritesDenied ==
  /\ \A request \in Requests, obj \in {0} \cup DOMAIN db["AuditLog"] :
       /\ ~has_add_permission("AuditLog", request)
       /\ ~has_change_permission("AuditLog", request, obj)
       /\ ~has_delete_permission("AuditLog", request, obj)
  /\ (admin = "AuditLog" /\ last.view \in {"add_view", "change_view", "delete_view"}
        /\ last.method = "POST")
       => last.status = "denied"
  /\ (admin = "AuditLog" /\ last.view = "delete_selected")
       => last.status \in {"denied", "noaction"}
  /\ (admin = "AuditLog" /\ Served("add_view", "GET")) => last.status = "denied"

\* a superuser's change submission carrying a value was rejected
C1_Witness ==
  /\ admin = "AuditLog"
  /\ Served("change_view", "POST")
  /\ last.user = "root"
  /\ last.object_id \in DOMAIN db["AuditLog"]
  /\ "action" \in DOMAIN last.data
  /\ last.status = "denied"

\* C2: whatever requests are served, by whichever callers, the set of AuditLog
\* records and every field value of each record stay what they were.
C2_AuditLogUnaltered ==
  /\ db["AuditLog"] = InitialAuditLog
  /\ last # Idle => last.before["AuditLog"] = InitialAuditLog

\* a superuser's bulk delete of the audit entries left them in place
C2_Witness ==
  /\ admin = "AuditLog"
  /\ last.view = "delete_selected"
  /\ last.user = "root"
  /\ last.selected = DOMAIN InitialAuditLog
  /\ db["AuditLog"] = InitialAuditLog

ClaimedReadonly ==
  [Transaction  |-> {"transaction_number", "created_at"},
   Invoice      |-> {"invoice_number", "pdf_path", "generated_at"},
   Distribution |-> {"distribution_number", "created_at"}]

\* C3: an accepted change-form submission for a Transaction, an Invoice or a
\* Distribution leaves the stored values of the fields declared read-only as
\* they were, also when the submission carries new values for them.
C3_ReadonlyUnmodified ==
  (admin \in DOMAIN ClaimedReadonly /\ Served("change_view", "POST")
     /\ last.status = "ok")
    => \A f \in ClaimedReadonly[admin] :
         db[admin][last.object_id][f] = last.before[admin][last.object_id][f]

\* an accepted Invoice submission carried a new pdf_path and a new status:
\* the status was stored, the pdf_path was not
C3_Witness ==
  /\ admin = "Invoice"
  /\ Served("change_view", "POST")
  /\ last.status = "ok"
  /\ "pdf_path" \in DOMAIN last.data
  /\ "status" \in DOMAIN last.data
  /\ last.data["pdf_path"] # last.before["Invoice"][last.object_id]["pdf_path"]
  /\ last.data["status"] # last.before["Invoice"][last.object_id]["status"]
  /\ db["Invoice"][last.object_id]["status"] = last.data["status"]

\* the list columns and search fields the fragment declares
Declared ==
  [User                  |-> [list_display  |-> <<"username", "employee_id", "role",
                                                  "depot", "is_staff">>,
                              search_fields |-> <<>>],
   Depot                 |-> [list_display  |-> <<"code", "name">>,
                              search_fields |-> <<"name", "code">>],
   Equipment             |-> [list_display  |-> <<"sku", "name", "equipment_type",
                                                  "is_active">>,
                              search_fields |-> <<>>],
   Customer              |-> [list_display  |-> <<"name", "email", "payment_type",
                                                  "is_meter_installed">>,
                              search_fields |-> <<"name", "email">>],
   CustomerSiteInventory |-> [list_display  |-> <<"customer", "equipment", "quantity">>,
                              search_fields |-> <<"customer__name">>],
   Transaction           |-> [list_display  |-> <<"transaction_number", "customer",
                                                  "total_amount", "created_at">>,
                              search_fields |-> <<>>],
   Invoice               |-> [list_display  |-> <<"invoice_number", "status",
                                                  "generated_at", "emailed_at">>,
                              search_fields |-> <<>>],
   Distribution          |-> [list_display  |-> <<"distribution_number", "depot", "user",
                                                  "confirmed_at">>,
                              search_fields |-> <<>>]]

ListPageShown == Served("changelist_view", "GET") /\ last.status = "ok"

\* C4 as stated: the list page of every registered model but the audit log
\* shows exactly the declared columns and searches exactly the declared
\* fields, none where the fragment declares none.
C4_Original ==
  (admin \in DOMAIN Declared /\ ListPageShown)
    => /\ last.page.list_display = Declared[admin].list_display
       /\ last.page.search_fields = Declared[admin].search_fields

\* C4 amended: as stated, except that the User list page, for which the
\* fragment declares no search fields, searches the fields of the base
\* UserAdmin (username, first_name, last_name, email).
C4_DeclaredColumnsAndSearch ==
  (admin \in DOMAIN Declared /\ ListPageShown)
    => /\ last.page.list_display = Declared[admin].list_display
       /\ last.page.search_fields =
            IF admin = "User"
            THEN <<"username", "first_name", "last_name", "email">>
            ELSE Declared[admin].search_fields

\* the User list page was shown with the columns of the fragment
C4_Witness ==
  /\ admin = "User"
  /\ ListPageShown
  /\ last.page.list_display = Declared["User"].list_display
  /\ last.page.search_fields # <<>>

\* C5: a caller the framework grants view access to the audit log (by the
\* view or the change permission) gets the list page with every entry and the
\* page of every existing entry, although add, change and delete are denied.
C5_AuditLogBrowsable ==
  (admin = "AuditLog" /\ last.method = "GET"
     /\ last.view \in {"changelist_view", "change_view"}
     /\ ModelAdmin_has_view_permission("AuditLog", LastRequest, "obj"))
    => /\ (last.view = "change_view" /\ last.object_id \notin DOMAIN db["AuditLog"])
            => last.status = "notfound"
       /\ (last.view = "change_view" /\ last.object_id \in DOMAIN db["AuditLog"])
            => last.status = "ok"
       /\ last.view = "changelist_view"
            => last.status = "ok" /\ last.page.rows = DOMAIN InitialAuditLog

\* a caller holding only the view permission opened an audit entry
C5_Witness ==
  /\ admin = "AuditLog"
  /\ Served("change_view", "GET")
  /\ last.user = "viewer"
  /\ last.object_id \in DOMAIN db["AuditLog"]
  /\ last.status = "ok"
  /\ ~has_change_permission("AuditLog", LastRequest, "obj")

\* C6: quantity is an input of the inventory change form, a change
\* submission by a caller holding the change permission on an existing record
\* is accepted, the stored quantity is then the submitted one, and customer
\* and equipment keep their values unless the submission carries them.
C6_InventoryAdjustable ==
  /\ "quantity" \in get_form("CustomerSiteInventory", FALSE)
  /\ (admin = "CustomerSiteInventory" /\ Served("change_view", "POST"))
       => /\ (/\ ModelAdmin_has_change_permission(admin, LastRequest, "obj")
              /\ last.object_id \in DOMAIN last.before[admin])
            => last.status = "ok"
          /\ last.status = "ok"
               => LET new == db[admin][last.object_id]
                      old == last.before[admin][last.object_id]
                  IN /\ "quantity" \in DOMAIN last.data
                          => new["quantity"] = last.data["quantity"]
                     /\ \A f \in {"customer", "equipment"} :
                          IF f \in DOMAIN last.data
                          THEN new[f] = last.data[f]
                          ELSE new[f] = old[f]

\* a non-superuser changed the quantity of a record and nothing else
C6_Witness ==
  /\ admin = "CustomerSiteInventory"
  /\ Served("change_view", "POST")
  /\ last.user = "clerk"
  /\ last.status = "ok"
  /\ DOMAIN last.data = {"quantity"}
  /\ last.data["quantity"] # last.before[admin][last.object_id]["quantity"]
  /\ db[admin][last.object_id]["quantity"] = last.data["quantity"]

LPGSystemInfo ==
  [name |-> "LPG System Info", fields |-> <<"employee_id", "role", "depot">>]

\* the User row an accepted add or change submission saved
SavedUser ==
  IF last.view = "add_view"
  THEN db["User"][CHOOSE i \in DOMAIN db["User"] : i \notin DOMAIN last.before["User"]]
  ELSE db["User"][last.object_id]

UserFieldsetsExtended ==
  LET fs == Attr("User", "fieldsets")
  IN /\ Len(fs) = Len(UserAdmin_fieldsets) + 1
     /\ SubSeq(fs, 1, Len(fs) - 1) = UserAdmin_fieldsets
     /\ fs[Len(fs)] = LPGSystemInfo
     /\ Range(LPGSystemInfo.fields) \subseteq get_form("User", FALSE)

UserFormAccepted(views) ==
  /\ admin = "User"
  /\ last.method = "POST"
  /\ last.view \in views
  /\ last.status = "ok"

\* C7 as stated: the fieldsets of CustomUserAdmin are those of the base
\* UserAdmin, in order, followed by the section LPG System Info with the
\* editable fields employee_id, role and depot, and an accepted submission of
\* the user form, on creating the account as on changing it, stores the role
\* and the depot it carries.
C7_Original ==
  /\ UserFieldsetsExtended
  /\ UserFormAccepted({"add_view", "change_view"})
       => \A f \in {"role", "depot"} \cap DOMAIN last.data :
            SavedUser[f] = last.data[f]

\* C7 amended: the fieldsets are as stated and an accepted submission of the
\* change form stores the role and the depot it carries; the add form has
\* the fields of the base UserAdmin's add_fieldsets only, so an account is
\* created with the default role and depot whatever the submission carries.
C7_RolesAssignedOnChange ==
  /\ UserFieldsetsExtended
  /\ Range(LPGSystemInfo.fields) \cap get_form("User", TRUE) = {}
  /\ UserFormAccepted({"change_view"})
       => \A f \in {"role", "depot"} \cap DOMAIN last.data :
            SavedUser[f] = last.data[f]
  /\ UserFormAccepted({"add_view"})
       => \A f \in {"role", "depot"} : SavedUser[f] = Row("User", 0)[f]
  /\ (admin = "User" /\ last.method = "GET" /\ last.status = "ok"
        /\ last.view \in {"add_view", "change_view"}
        /\ ModelAdmin_has_change_permission("User", LastRequest, "obj"))
       => (Range(LPGSystemInfo.fields) \subseteq last.page.editable
             <=> last.view = "change_view")

\* a non-superuser assigned a role and a depot through the change form
C7_Witness ==
  /\ UserFormAccepted({"change_view"})
  /\ last.user = "clerk"
  /\ DOMAIN last.data = {"role", "depot"}
  /\ last.data["role"] # last.before["User"][last.object_id]["role"]
  /\ last.data["depot"] # last.before["User"][last.object_id]["depot"]
  /\ SavedUser["role"] = last.data["role"]
  /\ SavedUser["depot"] = last.data["depot"]

C9_AuditLogAllReadonly ==
  /\ get_readonly_fields("AuditLog")
       = {AuditLog_get_fields[i].name : i \in 1..Len(AuditLog_get_fields)}
  /\ get_form("AuditLog", FALSE) = {}
  /\ get_form("AuditLog", TRUE) = {}
  /\ admin = "AuditLog"
       => \A id \in DOMAIN db["AuditLog"], data \in DataSets("AuditLog") :
            construct_instance("AuditLog", db["AuditLog"][id], data, FALSE)
              = db["AuditLog"][id]
  /\ (admin = "AuditLog" /\ last.method = "GET") => last.page.editable = {}

\* the page of an audit entry was rendered without any input
C9_Witness ==
  /\ admin = "AuditLog"
  /\ Served("change_view", "GET")
  /\ last.user = "clerk"
  /\ last.status = "ok"
  /\ last.page.editable = {}
  /\ \E data \in DataSets("AuditLog") : "payload" \in DOMAIN data

DistributionSaved ==
  /\ admin = "Distribution"
  /\ last.method = "POST"
  /\ last.view \in {"add_view", "change_view"}
  /\ last.status = "ok"

\* the Distribution row an accepted add or change submission saved
SavedDistribution ==
  IF last.view = "add_view"
  THEN CHOOSE i \in DOMAIN db["Distribution"] : i \notin DOMAIN last.before["Distribution"]
  ELSE last.object_id

\* C10: DistributionItem has no admin of its own and is the inline of
\* DistributionAdmin only; the change page offers one blank item form to a
\* caller who may change the Distribution and add items; an accepted
\* submission of the Distribution form creates items of that Distribution
\* only, changes and deletes only items that belonged to it, touches no other
\* table, and leaves distribution_number and created_at of a changed
\* Distribution as they were.
C10_ItemsManagedInline ==
  /\ "DistributionItem" \notin Registered
  /\ \A model \in Registered :
       IF model = "Distribution"
       THEN Attr(model, "inlines") = <<DistributionItemInline>>
       ELSE Attr(model, "inlines") = <<>>
  /\ DistributionItemInline.model = "DistributionItem"
  /\ DistributionItemInline.extra = 1
  /\ (admin = "Distribution" /\ Served("change_view", "GET") /\ last.status = "ok"
        /\ ModelAdmin_has_change_permission("Distribution", LastRequest, "obj")
        /\ has_perm(LastRequest.user, <<"add", "DistributionItem">>))
       => last.page.blank_forms = 1
  /\ DistributionSaved
       => LET old == last.before["DistributionItem"]
              new == db["DistributionItem"]
              d   == SavedDistribution
          IN /\ \A i \in DOMAIN new \ DOMAIN old : new[i].distribution = d
             /\ \A i \in DOMAIN old \ DOMAIN new : old[i].distribution = d
             /\ \A i \in DOMAIN old \cap DOMAIN new :
                  new[i] # old[i]
                    => old[i].distribution = d /\ new[i].distribution = d
             /\ \A m \in Registered \ {"Distribution"} : db[m] = last.before[m]
             /\ last.view = "change_view"
                  => \A f \in {"distribution_number", "created_at"} :
                       db["Distribution"][d][f] = last.before["Distribution"][d][f]

\* an accepted change of a Distribution created an item of it from the blank
\* form while an item of another Distribution stayed as it was
C10_Witness ==
  /\ DistributionSaved
  /\ last.view = "change_view"
  /\ Len(last.forms) = 1
  /\ last.forms[1].pk = 0
  /\ \E i \in DOMAIN db["DistributionItem"] \ DOMAIN last.before["DistributionItem"] :
       db["DistributionItem"][i].distribution = last.object_id
  /\ \E i \in DOMAIN db["DistributionItem"] :
       db["DistributionItem"][i].distribution = OtherDistribution

====
